---- MODULE Spec2Model ----
(***************************************************************************)
(* Real-time player synchronisation of src/server.js: the socket.io auth   *)
(* middleware (io.use), the connection handler (io.on('connection')) and   *)
(* the per-socket 'playerState' and 'disconnect' handlers, all acting on   *)
(* the module-level Map `players`.                                         *)
(*                                                                         *)
(* Node runs each callback to completion, so every handler is one action.  *)
(***************************************************************************)
EXTENDS Integers, Sequences, FiniteSets, TLC

VARIABLES
  players,  \* the Map `players`: a sequence of [key, value] in insertion order
  status,   \* per socket: "Connecting", "Active" (connected) or "Closed"
  user,     \* per socket: socket.user, the decoded token (NoUser until set)
  inbox,    \* per open socket: the events emitted to it, in emission order
  received, \* number of 'playerState' messages handled so far
  authentic, \* per socket: its handshake carried an auth_token that verifies
  stale,    \* per event name: handler runs for a socket that had already closed
  db,       \* the SQLite database: the tables users and profiles, and the
            \* AUTOINCREMENT counter of users
  requests, \* per HTTP request to /api/register: where it stands, its response
  now,      \* the time, in days
  gate      \* the last token shown to both auth gates, and what each answered

staleVars == <<stale>>

httpVars == <<db, requests, now, gate>>

vars == <<players, status, user, inbox, received, authentic, staleVars, httpVars>>

----------------------------------------------------------------------------
(* Bounds of the model *)

MaxReceived == 1  \* 'playerState' messages handled while all sockets take part
MaxNow == 1       \* jwt.verify reads a clock between 0 and MaxNow
MaxStale == 1     \* handler runs per event name for an already closed socket
MaxClock == 8     \* the days that pass: `now` runs from 0 to MaxClock

\* socket.id values: one per connection, never reused
Conns == {"s1", "s2", "s3"}

----------------------------------------------------------------------------
(* Program constants *)

COOKIE_NAME == "auth_token"
JWT_SECRET == "change_this_secret"
ExpiresIn == 7    \* createToken: expiresIn '7d', in days
SpawnX == 100
SpawnY == 100
SpawnHp == 100

----------------------------------------------------------------------------
(* JavaScript values of the numeric fields x, y, hp.  A value is either a  *)
(* finite number n, or something that is not one (n then only tells such   *)
(* values apart: 0 is the string "abc", 1 is null).                        *)

Num(n) == [finite |-> TRUE, n |-> n]
NotNum(k) == [finite |-> FALSE, n |-> k]

\* Variant: a missing hp falls back to full health
SpreadDefaultHp(a, b) ==
  [f \in (DOMAIN a) \cup (DOMAIN b) |->
     IF f \in DOMAIN b THEN b[f]
     ELSE IF f = "hp" THEN Num(SpawnHp) ELSE a[f]]

\* { ...a, ...b }: the fields of both, b's value where both have the field
Spread(a, b) ==
  [f \in (DOMAIN a) \cup (DOMAIN b) |-> IF f \in DOMAIN b THEN b[f] ELSE a[f]]

----------------------------------------------------------------------------
(* The Map `players` *)

MapKeys(m) == {m[i].key : i \in 1..Len(m)}

MapHas(m, k) == k \in MapKeys(m)

MapGet(m, k) == m[CHOOSE i \in 1..Len(m) : m[i].key = k].value

\* Variant: the entry is stored under the id field of the value
MapSetUnderValueId(m, k, v) ==
  IF MapHas(m, v.id)
    THEN [i \in 1..Len(m) |-> IF m[i].key = v.id THEN [key |-> v.id, value |-> v] ELSE m[i]]
    ELSE Append(m, [key |-> v.id, value |-> v])

\* Map.prototype.set: replaces the value in place, or appends a new entry
MapSet(m, k, v) ==
  IF MapHas(m, k)
    THEN [i \in 1..Len(m) |-> IF m[i].key = k THEN [key |-> k, value |-> v] ELSE m[i]]
    ELSE Append(m, [key |-> k, value |-> v])

\* Variant: the entry is not removed
MapDeleteNothing(m, k) == m

\* Variant: every entry of the same user is removed
MapDeleteSameUser(m, k) ==
  IF MapHas(m, k)
    THEN SelectSeq(m, LAMBDA e : e.value.userId # MapGet(m, k).userId)
    ELSE m

\* Map.prototype.delete: no-op when the key is absent
MapDelete(m, k) == SelectSeq(m, LAMBDA e : e.key # k)

\* Variant: only the entry added last
MapValuesLastOnly(m) == <<m[Len(m)].value>>

\* Array.from(players.values())
MapValues(m) == [i \in 1..Len(m) |-> m[i].value]

----------------------------------------------------------------------------
(* Tokens and cookies *)

\* What a client may present as a cookie value: a JWT carrying {id, username}
\* signed with some key and expiring at exp, or a string that is no JWT.
Tokens ==
  { [kind |-> "jwt", id |-> 1, username |-> "alice", key |-> JWT_SECRET, exp |-> ExpiresIn],
    [kind |-> "jwt", id |-> 2, username |-> "bob", key |-> JWT_SECRET, exp |-> ExpiresIn],
    [kind |-> "jwt", id |-> 1, username |-> "alice", key |-> JWT_SECRET, exp |-> 1],
    [kind |-> "jwt", id |-> 1, username |-> "alice", key |-> "forged", exp |-> ExpiresIn],
    [kind |-> "garbage", id |-> 0, username |-> "", key |-> "", exp |-> 0] }

\* The value of a cookie that is not a token
Plain == [kind |-> "garbage", id |-> 0, username |-> "", key |-> "", exp |-> 0]

\* The Cookie header, already split at ';' and '=': no header, one cookie,
\* or two cookies.
CookieHeaders ==
  {<<>>, <<[name |-> "theme", value |-> Plain]>>}
  \cup {<<[name |-> COOKIE_NAME, value |-> t]>> : t \in Tokens}
  \cup {<<[name |-> "theme", value |-> Plain], [name |-> COOKIE_NAME, value |-> t]>> :
          t \in Tokens}

\* parseCookie: an object with one property per cookie name, the last one
\* wins.  Cookie values are tokens or plain words, made of characters that
\* decodeURIComponent leaves as they are.
parseCookie(cookieHeader) ==
  LET names == {cookieHeader[i].name : i \in 1..Len(cookieHeader)}
      last(n) == CHOOSE i \in 1..Len(cookieHeader) :
                   /\ cookieHeader[i].name = n
                   /\ \A j \in 1..Len(cookieHeader) : cookieHeader[j].name = n => j <= i
  IN [n \in names |-> cookieHeader[last(n)].value]

\* jwt.verify(token, secret): the signature matches and the token is not expired
jwtVerify(token, secret, clock) ==
  /\ token.kind = "jwt"
  /\ token.key = secret
  /\ clock < token.exp

NoUser == [id |-> 0, username |-> ""]

\* The handshake carries an auth_token cookie that jwt.verify accepts
Authentic(cookieHeader, clock) ==
  \E i \in 1..Len(cookieHeader) :
    /\ cookieHeader[i].name = COOKIE_NAME
    /\ jwtVerify(cookieHeader[i].value, JWT_SECRET, clock)

\* Variant: the token is read but its verification does not gate next()
ioUseAcceptsAnyJwt(cookieHeader, clock) ==
  LET cookies == parseCookie(cookieHeader)
  IN /\ COOKIE_NAME \in DOMAIN cookies
     /\ cookies[COOKIE_NAME].kind = "jwt"

\* io.use: TRUE when the middleware calls next() without an error
ioUseAccepts(cookieHeader, clock) ==
  LET cookies == parseCookie(cookieHeader)
  IN /\ COOKIE_NAME \in DOMAIN cookies
     /\ jwtVerify(cookies[COOKIE_NAME], JWT_SECRET, clock)

\* io.use: the value assigned to socket.user
ioUseDecoded(cookieHeader) ==
  LET token == parseCookie(cookieHeader)[COOKIE_NAME]
  IN [id |-> token.id, username |-> token.username]

----------------------------------------------------------------------------
(* Emitting *)

Event(type, data, m) == [type |-> type, data |-> data, keys |-> MapKeys(m)]

\* io.emit: the sockets connected to the namespace
Active(st) == {d \in Conns : st[d] = "Active"}

\* Variant: io.emit where socket.broadcast.emit is meant
BroadcastToAll(st, c) == Active(st)

\* socket.broadcast.emit: the connected sockets except the sender
Broadcast(st, c) == Active(st) \ {c}

\* Append event e to the inbox of every socket in `to`
Emit(box, to, e) == [d \in Conns |-> IF d \in to THEN Append(box[d], e) ELSE box[d]]

\* 'playerState' messages handled in one run: MaxReceived, and one more for
\* each socket that takes no part because its handshake was rejected
ReceiveBudget ==
  MaxReceived + Cardinality({d \in Conns : status[d] = "Closed" /\ user[d] = NoUser})

----------------------------------------------------------------------------
(* Payloads of 'playerState' a client may send *)

Payloads ==
  { [x |-> Num(100), y |-> Num(100), hp |-> Num(80)],
    [x |-> Num(-50), y |-> Num(700)],
    [x |-> NotNum(0), y |-> Num(100)],
    [id |-> "s1", userId |-> 1, username |-> "alice"] }

----------------------------------------------------------------------------
(* The HTTP side: the database, /api/register and the cookie it sets *)

\* The HTTP requests to /api/register and /api/login that are in progress
\* together
Reqs == {"r1", "r2"}

\* req.body of /api/register; "" stands for a missing field
Bodies ==
  { [username |-> "alice", password |-> "pw", displayName |-> ""],
    [username |-> "alice", password |-> "pw2", displayName |-> "Al"],
    [username |-> "bob", password |-> "pw", displayName |-> ""],
    [username |-> "", password |-> "pw", displayName |-> ""],
    [username |-> "alice", password |-> "", displayName |-> ""] }

NoBody == [username |-> "", password |-> "", displayName |-> ""]

\* initDb on a new database file: the tables exist and are empty
EmptyDb == [users |-> <<>>, profiles |-> <<>>, seq |-> 0]

\* A column that is NULL
Null == -1

\* No row found
NoRow == [id |-> 0, username |-> "", password_hash |-> <<>>]

\* SELECT id FROM users WHERE username = ?
UserExists(d, username) ==
  \E i \in 1..Len(d.users) : d.users[i].username = username

\* Variant: the username column is not UNIQUE
UniqueViolatedNever(d, username) == FALSE

\* username TEXT UNIQUE NOT NULL: the INSERT into users throws
UniqueViolated(d, username) == UserExists(d, username)

\* bcrypt.hash(password, 10)
bcryptHash(password) == <<"$2b$10$", password>>

\* INSERT INTO users (username, password_hash), id INTEGER PRIMARY KEY
\* AUTOINCREMENT; then INSERT INTO profiles (user_id, display_name, hp)
InsertUserAndProfile(d, username, passwordHash, displayName) ==
  LET userId == d.seq + 1
  IN [users |-> Append(d.users, [id |-> userId, username |-> username,
                                 password_hash |-> passwordHash]),
      profiles |-> Append(d.profiles,
                          [user_id |-> userId,
                           display_name |-> IF displayName # "" THEN displayName ELSE username,
                           hp |-> 100, last_login |-> Null]),
      seq |-> userId]

\* SELECT * FROM users WHERE username = ?
SelectUser(d, username) ==
  IF UserExists(d, username)
    THEN d.users[CHOOSE i \in 1..Len(d.users) : d.users[i].username = username]
    ELSE NoRow

\* bcrypt.compare(password, hash)
bcryptCompare(password, hash) == hash = bcryptHash(password)

\* UPDATE profiles SET last_login = CURRENT_TIMESTAMP WHERE user_id = ?
UpdateLastLogin(d, userId, clock) ==
  [d EXCEPT !.profiles =
     [j \in 1..Len(d.profiles) |->
        IF d.profiles[j].user_id = userId
          THEN [d.profiles[j] EXCEPT !.last_login = clock]
          ELSE d.profiles[j]]]

\* createToken: jwt.sign({ id, username }, JWT_SECRET, { expiresIn: '7d' })
createToken(u, issuedAt) ==
  [kind |-> "jwt", id |-> u.id, username |-> u.username, key |-> JWT_SECRET,
   exp |-> issuedAt + ExpiresIn]

NoRequest ==
  [route |-> "", pc |-> "idle", body |-> NoBody, row |-> NoRow,
   code |-> 0, error |-> "", cookie |-> Plain]

Respond(req, code, error, cookie) ==
  [req EXCEPT !.pc = "done", !.code = code, !.error = error, !.cookie = cookie]

----------------------------------------------------------------------------
(* The two auth gates *)

\* cookieParser(): req.cookies, one property per cookie name
cookieParser(cookieHeader) ==
  LET names == {cookieHeader[i].name : i \in 1..Len(cookieHeader)}
      first(n) == CHOOSE i \in 1..Len(cookieHeader) :
                    /\ cookieHeader[i].name = n
                    /\ \A j \in 1..Len(cookieHeader) : cookieHeader[j].name = n => i <= j
  IN [n \in names |-> cookieHeader[first(n)].value]

\* Variant: the token is checked against another secret
authMiddlewareOtherSecret(cookieHeader, clock) ==
  LET cookies == cookieParser(cookieHeader)
  IN /\ COOKIE_NAME \in DOMAIN cookies
     /\ jwtVerify(cookies[COOKIE_NAME], "forged", clock)

\* authMiddleware: TRUE when it calls next(), FALSE when it answers 401
authMiddleware(cookieHeader, clock) ==
  LET cookies == cookieParser(cookieHeader)
  IN /\ COOKIE_NAME \in DOMAIN cookies
     /\ jwtVerify(cookies[COOKIE_NAME], JWT_SECRET, clock)

NoGate == [token |-> Plain, at |-> 0, http |-> FALSE, socket |-> FALSE]

----------------------------------------------------------------------------
(* Actions *)

Init ==
  /\ players = <<>>
  /\ status = [c \in Conns |-> "Connecting"]
  /\ user = [c \in Conns |-> NoUser]
  /\ inbox = [c \in Conns |-> <<>>]
  /\ received = 0
  /\ authentic = [c \in Conns |-> FALSE]
  /\ stale = [playerState |-> 0, disconnect |-> 0]
  /\ db = EmptyDb
  /\ requests = [r \in Reqs |-> NoRequest]
  /\ now = 0
  /\ gate = NoGate

\* io.use rejects the handshake: next(new Error('Unauthorized'))
HandshakeRejected(c, cookieHeader, clock) ==
  /\ status[c] = "Connecting"
  /\ ~ioUseAccepts(cookieHeader, clock)
  /\ status' = [status EXCEPT ![c] = "Closed"]
  /\ authentic' = [authentic EXCEPT ![c] = Authentic(cookieHeader, clock)]
  /\ UNCHANGED <<players, user, inbox, received, staleVars, httpVars>>

\* Variant: the snapshot is taken before the newcomer is inserted
ConnectionSnapshotFirst(c, cookieHeader, clock) ==
  /\ status[c] = "Connecting"
  /\ ioUseAccepts(cookieHeader, clock)
  /\ LET decoded == ioUseDecoded(cookieHeader)
         playerState == [id |-> c, userId |-> decoded.id, username |-> decoded.username,
                         x |-> Num(SpawnX), y |-> Num(SpawnY), hp |-> Num(SpawnHp)]
         status1 == [status EXCEPT ![c] = "Active"]
         players1 == MapSet(players, c, playerState)
         inbox1 == Emit(inbox, {c}, Event("currentPlayers", MapValues(players), players))
         inbox2 == Emit(inbox1, Broadcast(status1, c), Event("playerJoined", playerState, players1))
     IN /\ user' = [user EXCEPT ![c] = decoded]
        /\ players' = players1
        /\ inbox' = inbox2
        /\ status' = status1
  /\ authentic' = [authentic EXCEPT ![c] = Authentic(cookieHeader, clock)]
  /\ UNCHANGED <<received, staleVars, httpVars>>

\* io.use accepts the handshake and the 'connection' handler runs
Connection(c, cookieHeader, clock) ==
  /\ status[c] = "Connecting"
  /\ ioUseAccepts(cookieHeader, clock)
  /\ LET decoded == ioUseDecoded(cookieHeader)
         playerState == [id |-> c, userId |-> decoded.id, username |-> decoded.username,
                         x |-> Num(SpawnX), y |-> Num(SpawnY), hp |-> Num(SpawnHp)]
         status1 == [status EXCEPT ![c] = "Active"]
         players1 == MapSet(players, c, playerState)
         inbox1 == Emit(inbox, {c}, Event("currentPlayers", MapValues(players1), players1))
         inbox2 == Emit(inbox1, Broadcast(status1, c), Event("playerJoined", playerState, players1))
     IN /\ user' = [user EXCEPT ![c] = decoded]
        /\ players' = players1
        /\ inbox' = inbox2
        /\ status' = status1
  /\ authentic' = [authentic EXCEPT ![c] = Authentic(cookieHeader, clock)]
  /\ UNCHANGED <<received, staleVars, httpVars>>

\* Variant: the update goes to the other sockets only
PlayerStateToOthers(c, state) ==
  /\ status[c] = "Active"
  /\ received < ReceiveBudget
  /\ received' = received + 1
  /\ IF ~MapHas(players, c)
       THEN UNCHANGED <<players, inbox>>
       ELSE LET current == MapGet(players, c)
                players1 == MapSet(players, c, Spread(current, state))
                payload == Spread([id |-> c], MapGet(players1, c))
            IN /\ players' = players1
               /\ inbox' = Emit(inbox, Broadcast(status, c), Event("playerStateUpdate", payload, players1))
  /\ UNCHANGED <<status, user, authentic, staleVars, httpVars>>

\* socket.on('playerState', (state) => ...)
PlayerState(c, state) ==
  /\ status[c] = "Active"
  /\ received < ReceiveBudget
  /\ received' = received + 1
  /\ IF ~MapHas(players, c)
       THEN UNCHANGED <<players, inbox>>
       ELSE LET current == MapGet(players, c)
                players1 == MapSet(players, c, Spread(current, state))
                payload == Spread([id |-> c], MapGet(players1, c))
            IN /\ players' = players1
               /\ inbox' = Emit(inbox, Active(status), Event("playerStateUpdate", payload, players1))
  /\ UNCHANGED <<status, user, authentic, staleVars, httpVars>>

\* Variant: playerLeft is emitted before the entry is removed
DisconnectEmitFirst(c) ==
  /\ status[c] = "Active"
  /\ LET status1 == [status EXCEPT ![c] = "Closed"]
         players1 == MapDelete(players, c)
         inbox1 == [inbox EXCEPT ![c] = <<>>]
     IN /\ players' = players1
        /\ inbox' = Emit(inbox1, Broadcast(status1, c), Event("playerLeft", [id |-> c], players))
        /\ status' = status1
  /\ UNCHANGED <<user, received, authentic, staleVars, httpVars>>

\* socket.on('disconnect', () => ...): the socket has left the namespace and
\* its transport is gone, so what was emitted to it is dropped
Disconnect(c) ==
  /\ status[c] = "Active"
  /\ LET status1 == [status EXCEPT ![c] = "Closed"]
         players1 == MapDelete(players, c)
         inbox1 == [inbox EXCEPT ![c] = <<>>]
     IN /\ players' = players1
        /\ inbox' = Emit(inbox1, Broadcast(status1, c), Event("playerLeft", [id |-> c], players1))
        /\ status' = status1
  /\ UNCHANGED <<user, received, authentic, staleVars, httpVars>>

Next ==
  \/ \E c \in Conns, h \in CookieHeaders, t \in 0..MaxNow : HandshakeRejected(c, h, t)
  \/ \E c \in Conns, h \in CookieHeaders, t \in 0..MaxNow : Connection(c, h, t)
  \/ \E c \in Conns, s \in Payloads : PlayerState(c, s)
  \/ \E c \in Conns : Disconnect(c)

Spec == Init /\ [][Next]_vars

----------------------------------------------------------------------------
(* The handlers of a socket run once more after the socket has closed: a    *)
(* 'playerState' message that was in flight, a repeated 'disconnect' signal. *)

\* Variant: the handler does not return when the entry is gone
PlayerStateLateNoGuard(c, state) ==
  /\ status[c] = "Closed"
  /\ user[c] # NoUser
  /\ stale.playerState < MaxStale
  /\ stale' = [stale EXCEPT !.playerState = @ + 1]
  /\ LET current == IF MapHas(players, c) THEN MapGet(players, c) ELSE [f \in {} |-> 0]
         players1 == MapSet(players, c, Spread(current, state))
         payload == Spread([id |-> c], MapGet(players1, c))
     IN /\ players' = players1
        /\ inbox' = Emit(inbox, Active(status), Event("playerStateUpdate", payload, players1))
  /\ UNCHANGED <<status, user, authentic, received, httpVars>>

\* socket.on('playerState', (state) => ...) for a socket that has closed
PlayerStateLate(c, state) ==
  /\ status[c] = "Closed"
  /\ user[c] # NoUser
  /\ stale.playerState < MaxStale
  /\ stale' = [stale EXCEPT !.playerState = @ + 1]
  /\ IF ~MapHas(players, c)
       THEN UNCHANGED <<players, inbox>>
       ELSE LET current == MapGet(players, c)
                players1 == MapSet(players, c, Spread(current, state))
                payload == Spread([id |-> c], MapGet(players1, c))
            IN /\ players' = players1
               /\ inbox' = Emit(inbox, Active(status), Event("playerStateUpdate", payload, players1))
  /\ UNCHANGED <<status, user, authentic, received, httpVars>>

\* socket.on('disconnect', () => ...) run again for a socket that has closed
DisconnectAgain(c) ==
  /\ status[c] = "Closed"
  /\ user[c] # NoUser
  /\ stale.disconnect < MaxStale
  /\ stale' = [stale EXCEPT !.disconnect = @ + 1]
  /\ LET players1 == MapDelete(players, c)
     IN /\ players' = players1
        /\ inbox' = Emit(inbox, Broadcast(status, c), Event("playerLeft", [id |-> c], players1))
  /\ UNCHANGED <<status, user, authentic, received, httpVars>>

\* The lifecycle of the sockets, with the stale handler runs
NextRedelivery ==
  \/ \E c \in Conns, h \in CookieHeaders, t \in 0..MaxNow : HandshakeRejected(c, h, t)
  \/ \E c \in Conns, h \in CookieHeaders, t \in 0..MaxNow : Connection(c, h, t)
  \/ \E c \in Conns : Disconnect(c)
  \/ \E c \in Conns, s \in Payloads : PlayerStateLate(c, s)
  \/ \E c \in Conns : DisconnectAgain(c)

SpecRedelivery == Init /\ [][NextRedelivery]_vars

----------------------------------------------------------------------------
(* /api/register, /api/login, the clock, and a token shown to both gates *)

\* app.post('/api/register'), up to `await bcrypt.hash`
RegisterStart(r, body) ==
  /\ requests[r].pc = "idle"
  /\ requests' =
       [requests EXCEPT ![r] =
          IF body.username = "" \/ body.password = ""
            THEN Respond([@ EXCEPT !.route = "register", !.body = body],
                         400, "Username and password are required", Plain)
          ELSE IF UserExists(db, body.username)
            THEN Respond([@ EXCEPT !.route = "register", !.body = body],
                         400, "Username already exists", Plain)
          ELSE [@ EXCEPT !.route = "register", !.pc = "hashing", !.body = body]]
  /\ UNCHANGED <<db, now, gate>>
  /\ UNCHANGED <<players, status, user, inbox, received, authentic, staleVars>>

\* app.post('/api/register'), from the end of `await bcrypt.hash` on
RegisterResume(r) ==
  /\ requests[r].pc = "hashing"
  /\ LET body == requests[r].body
         passwordHash == bcryptHash(body.password)
         db1 == InsertUserAndProfile(db, body.username, passwordHash, body.displayName)
         token == createToken([id |-> db1.seq, username |-> body.username], now)
     IN IF UniqueViolated(db, body.username)
          THEN /\ requests' = [requests EXCEPT ![r] = Respond(@, 500, "Registration failed", Plain)]
               /\ db' = db
          ELSE /\ requests' = [requests EXCEPT ![r] = Respond(@, 200, "", token)]
               /\ db' = db1
  /\ UNCHANGED <<now, gate>>
  /\ UNCHANGED <<players, status, user, inbox, received, authentic, staleVars>>

\* app.post('/api/login'), up to `await bcrypt.compare`
LoginStart(r, body) ==
  /\ requests[r].pc = "idle"
  /\ requests' =
       [requests EXCEPT ![r] =
          IF body.username = "" \/ body.password = ""
            THEN Respond([@ EXCEPT !.route = "login", !.body = body],
                         400, "Username and password are required", Plain)
          ELSE IF SelectUser(db, body.username) = NoRow
            THEN Respond([@ EXCEPT !.route = "login", !.body = body],
                         400, "Invalid credentials", Plain)
          ELSE [@ EXCEPT !.route = "login", !.pc = "comparing", !.body = body,
                         !.row = SelectUser(db, body.username)]]
  /\ UNCHANGED <<db, now, gate>>
  /\ UNCHANGED <<players, status, user, inbox, received, authentic, staleVars>>

\* app.post('/api/login'), from the end of `await bcrypt.compare` on
LoginResume(r) ==
  /\ requests[r].pc = "comparing"
  /\ LET row == requests[r].row
     IN IF ~bcryptCompare(requests[r].body.password, row.password_hash)
          THEN /\ requests' = [requests EXCEPT ![r] = Respond(@, 400, "Invalid credentials", Plain)]
               /\ db' = db
          ELSE /\ requests' = [requests EXCEPT ![r] = Respond(@, 200, "", createToken(row, now))]
               /\ db' = UpdateLastLogin(db, row.id, now)
  /\ UNCHANGED <<now, gate>>
  /\ UNCHANGED <<players, status, user, inbox, received, authentic, staleVars>>

\* A day passes
Tick ==
  /\ now < MaxClock
  /\ now' = now + 1
  /\ UNCHANGED <<db, requests, gate>>
  /\ UNCHANGED <<players, status, user, inbox, received, authentic, staleVars>>

\* The cookies a client holds: those set by /api/register and /api/login, and
\* made-up ones
CookieValues == Tokens \cup {requests[r].cookie : r \in Reqs}

\* A client sends the same auth_token cookie with an HTTP request that runs
\* authMiddleware and with a socket handshake that runs io.use
ShowToken(t, withTheme) ==
  /\ LET one == <<[name |-> COOKIE_NAME, value |-> t]>>
         cookieHeader == IF withTheme THEN <<[name |-> "theme", value |-> Plain]>> \o one ELSE one
     IN gate' = [token |-> t, at |-> now,
                 http |-> authMiddleware(cookieHeader, now),
                 socket |-> ioUseAccepts(cookieHeader, now)]
  /\ gate' # gate
  /\ UNCHANGED <<db, requests, now>>
  /\ UNCHANGED <<players, status, user, inbox, received, authentic, staleVars>>

NextHttp ==
  \/ \E r \in Reqs, b \in Bodies : RegisterStart(r, b)
  \/ \E r \in Reqs : RegisterResume(r)
  \/ \E r \in Reqs, b \in Bodies : LoginStart(r, b)
  \/ \E r \in Reqs : LoginResume(r)
  \/ Tick
  \/ \E t \in CookieValues, w \in BOOLEAN : ShowToken(t, w)

SpecHttp == Init /\ [][NextHttp]_vars

----------------------------------------------------------------------------
(* Vocabulary of the properties *)

\* The step is the handshake of c that ends in the 'connection' handler
Joins(c) == status[c] = "Connecting" /\ status'[c] = "Active"

\* The step is the 'disconnect' handler of c
Leaves(c) == status[c] = "Active" /\ status'[c] = "Closed"

\* The playfield the specification clamps positions into
Width == 800
Height == 600

Clamp(v, lo, hi) == IF v < lo THEN lo ELSE IF v > hi THEN hi ELSE v

\* The payload carries finite numbers x and y
WellFormed(state) ==
  /\ "x" \in DOMAIN state /\ state.x.finite
  /\ "y" \in DOMAIN state /\ state.y.finite

OutOfField(state) ==
  \/ state.x.n < 0 \/ state.x.n > Width
  \/ state.y.n < 0 \/ state.y.n > Height

\* The events of the given type in the inbox of d, as indices
EventsOf(d, type) == {i \in 1..Len(inbox[d]) : inbox[d][i].type = type}

----------------------------------------------------------------------------
\* C1: the keys of the registry are exactly the connections whose handshake
\* passed the token check and that have not disconnected, and the registry
\* holds one entry for each of them.
C1_RegistryIsOpenAuthenticated ==
  /\ MapKeys(players) = {c \in Conns : authentic[c] /\ status[c] # "Closed"}
  /\ Len(players) = Cardinality(MapKeys(players))

\* One connection was rejected, one joined and left, one is registered and
\* has sent a state update.
C1_Witness ==
  \E a, b, c \in Conns :
    /\ ~authentic[a] /\ status[a] = "Closed"
    /\ authentic[b] /\ status[b] = "Closed"
    /\ authentic[c] /\ status[c] = "Active" /\ MapHas(players, c)
    /\ received > 0

\* C2: a connection whose handshake carries no auth_token cookie, or one that
\* fails verification, is never Active, never has a registry entry, is never
\* sent currentPlayers, and no peer is sent playerJoined for it.
C2_UnauthenticatedNeverActive ==
  \A c \in Conns :
    ~authentic[c] =>
      /\ status[c] # "Active"
      /\ ~MapHas(players, c)
      /\ user[c] = NoUser
      /\ EventsOf(c, "currentPlayers") = {}
      /\ \A d \in Conns : \A i \in EventsOf(d, "playerJoined") : inbox[d][i].data.id # c

\* A rejected connection next to a registered one that has seen a peer join
C2_Witness ==
  \E c, d \in Conns :
    /\ ~authentic[c] /\ status[c] = "Closed"
    /\ status[d] = "Active" /\ EventsOf(d, "playerJoined") # {}

\* C3: a successful handshake creates exactly one Player, and the snapshot
\* the joiner is sent contains the Player of every other connection that is
\* registered at that moment.
C3_JoinCreatesOneAndSnapshotHasPeers ==
  [][\A c \in Conns :
       Joins(c) =>
         /\ ~MapHas(players, c)
         /\ MapKeys(players') = MapKeys(players) \cup {c}
         /\ Len(players') = Len(players) + 1
         /\ Len(inbox'[c]) = 1
         /\ inbox'[c][1].type = "currentPlayers"
         /\ \A k \in MapKeys(players') \ {c} :
              \E i \in 1..Len(inbox'[c][1].data) :
                inbox'[c][1].data[i] = MapGet(players', k)]_vars

\* c joined after a had left and while b was registered: b was told that a
\* left and then that c joined, and c's snapshot was taken with b registered.
C3_Witness ==
  \E a, b, c \in Conns :
    /\ a # b /\ b # c /\ a # c
    /\ status[a] = "Closed" /\ authentic[a]
    /\ status[b] = "Active" /\ status[c] = "Active"
    /\ \E i \in EventsOf(b, "playerLeft"), j \in EventsOf(b, "playerJoined") :
         i < j /\ inbox[b][i].data.id = a /\ inbox[b][j].data.id = c
    /\ inbox[c][1].type = "currentPlayers"
    /\ inbox[c][1].keys = {b, c}
    /\ Len(inbox[c][1].data) = 2

\* C4 as claimed: the snapshot sent to a newly connected connection does not
\* contain the newcomer's own Player.
C4_SnapshotExcludesNewcomer ==
  [][\A c \in Conns :
       Joins(c) =>
         \A i \in 1..Len(inbox'[c][1].data) :
           inbox'[c][1].data[i] # MapGet(players', c)]_vars

\* C4 as amended: the snapshot sent to a newly connected connection is the
\* list of all registered Players at that moment, in insertion order, and its
\* last element is the newcomer's own Player.
C4_SnapshotIncludesNewcomer ==
  [][\A c \in Conns :
       Joins(c) =>
         LET snapshot == inbox'[c][1].data
         IN /\ inbox'[c][1].type = "currentPlayers"
            /\ snapshot = MapValues(players')
            /\ players'[Len(players')].key = c
            /\ snapshot[Len(snapshot)] = MapGet(players', c)
            /\ snapshot[Len(snapshot)].id = c]_vars

\* A newcomer holds a snapshot of two Players whose last element is its own
C4_Witness ==
  \E c \in Conns :
    /\ status[c] = "Active"
    /\ Len(inbox[c]) = 1
    /\ inbox[c][1].type = "currentPlayers"
    /\ Len(inbox[c][1].data) = 2
    /\ inbox[c][1].data[2].id = c
    /\ inbox[c][1].data[1].id # c

\* C5: when c joins, every other connected socket is sent exactly one
\* playerJoined carrying c's Player, emitted with c's entry already in the
\* registry; c itself is sent no playerJoined, and nobody else is sent anything.
C5_JoinAnnouncedToOthersOnly ==
  [][\A c \in Conns :
       Joins(c) =>
         /\ \A i \in 1..Len(inbox'[c]) : inbox'[c][i].type # "playerJoined"
         /\ \A d \in Conns \ {c} :
              IF status[d] = "Active"
                THEN /\ Len(inbox'[d]) = Len(inbox[d]) + 1
                     /\ SubSeq(inbox'[d], 1, Len(inbox[d])) = inbox[d]
                     /\ LET e == inbox'[d][Len(inbox'[d])]
                        IN /\ e.type = "playerJoined"
                           /\ e.data = MapGet(players', c)
                           /\ c \in e.keys
                ELSE inbox'[d] = inbox[d]]_vars

\* Two registered connections were each told that the third one joined
C5_Witness ==
  \E a, b, c \in Conns :
    /\ a # b /\ a # c /\ b # c
    /\ status[a] = "Active" /\ status[b] = "Active" /\ status[c] = "Active"
    /\ \E i \in EventsOf(a, "playerJoined") : inbox[a][i].data.id = c
    /\ \E i \in EventsOf(b, "playerJoined") : inbox[b][i].data.id = c
    /\ EventsOf(c, "playerJoined") = {}

\* C6: a playerState message whose x or y lies outside the playfield leaves
\* the clamped values in the sender's registry entry and in the
\* playerStateUpdate every connected socket is sent.
C6_OutOfFieldPositionsClamped ==
  [][\A c \in Conns, s \in Payloads :
       (PlayerState(c, s) /\ WellFormed(s) /\ OutOfField(s)) =>
         LET x == Num(Clamp(s.x.n, 0, Width))
             y == Num(Clamp(s.y.n, 0, Height))
         IN /\ MapGet(players', c).x = x
            /\ MapGet(players', c).y = y
            /\ \A d \in Active(status) :
                 LET e == inbox'[d][Len(inbox'[d])]
                 IN e.type = "playerStateUpdate" /\ e.data.x = x /\ e.data.y = y]_vars

\* C7: a playerState message whose x or y is not a finite number leaves the
\* registry unchanged, emits nothing, and leaves the sender connected.
C7_MalformedPayloadDropped ==
  [][\A c \in Conns, s \in Payloads :
       (PlayerState(c, s) /\ ~WellFormed(s)) =>
         /\ players' = players
         /\ inbox' = inbox
         /\ status'[c] = "Active"]_vars

\* C8: no step changes the id, userId or username of a registry entry.
C8_IdentityFieldsUntouched ==
  [][\A c \in Conns :
       (MapHas(players, c) /\ MapHas(players', c)) =>
         /\ MapGet(players', c).id = MapGet(players, c).id
         /\ MapGet(players', c).userId = MapGet(players, c).userId
         /\ MapGet(players', c).username = MapGet(players, c).username]_vars

\* C9: a playerState message of a connected socket sends exactly one
\* playerStateUpdate to every connected socket, the sender included, and to
\* nobody else; its payload is the sender's registry entry after the update.
C9_UpdateEchoedToAll ==
  [][\A c \in Conns, s \in Payloads :
       PlayerState(c, s) =>
         \A d \in Conns :
           IF status[d] = "Active"
             THEN /\ Len(inbox'[d]) = Len(inbox[d]) + 1
                  /\ SubSeq(inbox'[d], 1, Len(inbox[d])) = inbox[d]
                  /\ LET e == inbox'[d][Len(inbox'[d])]
                     IN /\ e.type = "playerStateUpdate"
                        /\ e.data = MapGet(players', c)
             ELSE inbox'[d] = inbox[d]]_vars

\* Three connected sockets, the last event of each being the same update,
\* which equals a registry entry that is no longer at its spawn values
C9_Witness ==
  /\ \A d \in Conns : status[d] = "Active" /\ inbox[d] # <<>>
  /\ \E c \in Conns :
       /\ MapGet(players, c).hp # Num(SpawnHp)
       /\ \A d \in Conns :
            LET e == inbox[d][Len(inbox[d])]
            IN e.type = "playerStateUpdate" /\ e.data = MapGet(players, c)

\* C10: the 'disconnect' handler of c removes c's registry entry and sends
\* every socket that is still connected exactly one playerLeft carrying only
\* c's id, emitted after the removal; nobody else is sent anything, and a
\* closed connection has no registry entry.
C10_LeftAnnouncedAfterRemoval ==
  [][\A c \in Conns :
       /\ status'[c] = "Closed" => ~MapHas(players', c)
       /\ Leaves(c) =>
            \A d \in Conns \ {c} :
              IF status[d] = "Active"
                THEN /\ Len(inbox'[d]) = Len(inbox[d]) + 1
                     /\ SubSeq(inbox'[d], 1, Len(inbox[d])) = inbox[d]
                     /\ LET e == inbox'[d][Len(inbox'[d])]
                        IN /\ e.type = "playerLeft"
                           /\ e.data = [id |-> c]
                           /\ c \notin e.keys
                     /\ Cardinality({i \in 1..Len(inbox'[d]) :
                                       /\ inbox'[d][i].type = "playerLeft"
                                       /\ inbox'[d][i].data.id = c}) = 1
                ELSE inbox'[d] = inbox[d]]_vars

\* One connection joined and left; the two that stay connected were each
\* told so once
C10_Witness ==
  \E a, b, c \in Conns :
    /\ a # b /\ a # c /\ b # c
    /\ status[c] = "Closed" /\ authentic[c] /\ ~MapHas(players, c)
    /\ status[a] = "Active" /\ status[b] = "Active"
    /\ \E i \in EventsOf(a, "playerLeft") : inbox[a][i].data = [id |-> c]
    /\ \E i \in EventsOf(b, "playerLeft") : inbox[b][i].data = [id |-> c]

----------------------------------------------------------------------------
\* C11: when the 'disconnect' handler runs again for a connection whose
\* registry entry is already removed, the registry is unchanged and no
\* playerLeft is emitted.
C11_DisconnectIdempotent ==
  [][\A c \in Conns :
       DisconnectAgain(c) => (players' = players /\ inbox' = inbox)]_vars

\* C16: a playerState message handled for a connection that has disconnected
\* creates no registry entry and emits nothing.
C16_LateStateIgnored ==
  [][\A c \in Conns, s \in Payloads :
       PlayerStateLate(c, s) =>
         /\ ~MapHas(players', c)
         /\ players' = players
         /\ inbox' = inbox]_vars

\* A late playerState message was handled while a peer was connected
C16_Witness ==
  /\ stale.playerState > 0
  /\ \E c, d \in Conns :
       /\ status[c] = "Closed" /\ user[c] # NoUser /\ ~MapHas(players, c)
       /\ status[d] = "Active" /\ MapHas(players, d)
       /\ \E i \in EventsOf(d, "playerLeft") : inbox[d][i].data.id = c

----------------------------------------------------------------------------
\* C12: a playerState message of A puts a playerStateUpdate for A's id in the
\* inbox of every connected peer, with no playerLeft for A before it; and no
\* inbox holds a playerStateUpdate for an id after the playerLeft for that id.
C12_UpdateBeforeLeft ==
  [][/\ \A a \in Conns, s \in Payloads :
          PlayerState(a, s) =>
            \A d \in Active(status) :
              /\ inbox'[d][Len(inbox'[d])].type = "playerStateUpdate"
              /\ inbox'[d][Len(inbox'[d])].data.id = a
              /\ \A i \in 1..Len(inbox'[d]) :
                   inbox'[d][i].type = "playerLeft" => inbox'[d][i].data.id # a
     /\ \A d \in Conns : \A i, j \in 1..Len(inbox'[d]) :
          (/\ inbox'[d][i].type = "playerLeft"
           /\ inbox'[d][j].type = "playerStateUpdate"
           /\ inbox'[d][j].data.id = inbox'[d][i].data.id) => j < i]_vars

\* C14: a 'playerState' or 'disconnect' event of c leaves the registry entry
\* of every other connection as it was, and creates none.
C14_OnlyOwnEntryChanges ==
  [][\A c \in Conns :
       ((\E s \in Payloads : PlayerState(c, s)) \/ Disconnect(c)) =>
         \A d \in Conns \ {c} :
           /\ MapHas(players', d) = MapHas(players, d)
           /\ MapHas(players, d) => MapGet(players', d) = MapGet(players, d)]_vars

\* Two registered connections: one has sent a state update that changed its
\* own entry, the entry of the other is still as it was created
C14_Witness ==
  \E c, d \in Conns :
    /\ c # d
    /\ status[c] = "Active" /\ status[d] = "Active"
    /\ received > 0
    /\ MapGet(players, c).hp = Num(80)
    /\ MapGet(players, d) = [id |-> d, userId |-> user[d].id, username |-> user[d].username,
                             x |-> Num(SpawnX), y |-> Num(SpawnY), hp |-> Num(SpawnHp)]

\* C15: the playerStateUpdate caused by a message of c carries c's socket id,
\* whatever the payload.
C15_UpdateCarriesSenderId ==
  [][\A c \in Conns, s \in Payloads :
       PlayerState(c, s) =>
         \A d \in Active(status) :
           /\ inbox'[d][Len(inbox'[d])].type = "playerStateUpdate"
           /\ inbox'[d][Len(inbox'[d])].data.id = c]_vars

\* C17: a new Player has the spawn position and hp 100; a payload without hp
\* leaves the sender's hp as it was, in the registry and in the
\* playerStateUpdate, and a payload of just x and y changes x and y only.
C17_OmittedHpKept ==
  [][/\ \A c \in Conns :
          Joins(c) =>
            /\ MapGet(players', c).x = Num(SpawnX)
            /\ MapGet(players', c).y = Num(SpawnY)
            /\ MapGet(players', c).hp = Num(SpawnHp)
     /\ \A c \in Conns, s \in Payloads :
          (PlayerState(c, s) /\ "hp" \notin DOMAIN s) =>
            /\ MapGet(players', c).hp = MapGet(players, c).hp
            /\ \A d \in Active(status) :
                 inbox'[d][Len(inbox'[d])].data.hp = MapGet(players, c).hp
            /\ DOMAIN s = {"x", "y"} =>
                 MapGet(players', c) = [MapGet(players, c) EXCEPT !.x = s.x, !.y = s.y]]_vars

\* A Player whose hp was lowered to 80 has then sent a payload without hp:
\* its position is the new one and its hp is still 80
C17_Witness ==
  \E c \in Conns :
    /\ status[c] = "Active"
    /\ received = 2
    /\ MapGet(players, c).hp = Num(80)
    /\ MapGet(players, c).x = Num(-50)
    /\ inbox[c][Len(inbox[c])].type = "playerStateUpdate"
    /\ inbox[c][Len(inbox[c])].data.hp = Num(80)
    /\ inbox[c][Len(inbox[c])].data.x = Num(-50)

----------------------------------------------------------------------------
\* C18: the registry holds the entries of two connections of the same user
\* side by side, and the 'disconnect' of one of them removes its own entry
\* and leaves the other's as it was.
C18_SameUserEntriesIndependent ==
  [][\A c, d \in Conns :
       (/\ c # d
        /\ Disconnect(c)
        /\ MapHas(players, c) /\ MapHas(players, d)
        /\ user[c].id = user[d].id) =>
         /\ ~MapHas(players', c)
         /\ MapHas(players', d)
         /\ MapGet(players', d) = MapGet(players, d)]_vars

\* Two connections of the same user were registered together; one of them
\* has disconnected, the other was told so and is still registered
C18_Witness ==
  \E c, d \in Conns :
    /\ c # d
    /\ user[c] # NoUser /\ user[c].id = user[d].id
    /\ status[c] = "Closed" /\ ~MapHas(players, c)
    /\ status[d] = "Active" /\ MapHas(players, d)
    /\ MapGet(players, d).userId = user[c].id
    /\ \E i \in EventsOf(d, "playerLeft") : inbox[d][i].data.id = c

----------------------------------------------------------------------------
(* The view a client keeps of the players, built from the events it is sent *)

Stats(p) == [x |-> p.x, y |-> p.y, hp |-> p.hp]

\* The view with the player `id` set to the x, y, hp of p
ViewPut(view, id, p) ==
  [k \in (DOMAIN view) \cup {id} |-> IF k = id THEN Stats(p) ELSE view[k]]

RECURSIVE ViewOfList(_, _)
\* The view after taking in the first n Players of a currentPlayers list
ViewOfList(list, n) ==
  IF n = 0 THEN [k \in {} |-> 0]
  ELSE ViewPut(ViewOfList(list, n - 1), list[n].id, list[n])

\* One event applied to the view
ViewApply(view, e) ==
  CASE e.type = "currentPlayers" -> ViewOfList(e.data, Len(e.data))
    [] e.type = "playerJoined" -> ViewPut(view, e.data.id, e.data)
    [] e.type = "playerStateUpdate" -> ViewPut(view, e.data.id, e.data)
    [] e.type = "playerLeft" -> [k \in (DOMAIN view) \ {e.data.id} |-> view[k]]

RECURSIVE ViewAfter(_, _)
\* The view after the first n events of the sequence
ViewAfter(events, n) ==
  IF n = 0 THEN [k \in {} |-> 0]
  ELSE ViewApply(ViewAfter(events, n - 1), events[n])

\* The x, y, hp of the registry, per key
RegistryStats == [k \in MapKeys(players) |-> Stats(MapGet(players, k))]

\* C19: the view of every connected client, once it has applied every event
\* emitted to it, has the ids and the x, y, hp of the registry.
C19_ViewEqualsRegistry ==
  \A d \in Conns :
    status[d] = "Active" => ViewAfter(inbox[d], Len(inbox[d])) = RegistryStats

----------------------------------------------------------------------------
\* C13: the socket handshake gate and the HTTP authMiddleware accept the same
\* tokens: whatever token was last shown to both, they gave the same answer,
\* and a token that /api/register or /api/login set as the cookie, shown
\* before it expires, was accepted by both.
C13_GatesAcceptSameTokens ==
  /\ gate.http = gate.socket
  /\ \A r \in Reqs :
       /\ requests[r].code = 200
       /\ gate.token = requests[r].cookie
       /\ gate.at < gate.token.exp
       => gate.http /\ gate.socket

\* A token set by /api/login was shown on a later day and passed both gates
C13_Witness ==
  \E r \in Reqs :
    /\ requests[r].route = "login"
    /\ requests[r].code = 200
    /\ gate.token = requests[r].cookie
    /\ gate.at > gate.token.exp - ExpiresIn
    /\ gate.http
    /\ gate.socket

----------------------------------------------------------------------------
\* C20: under any interleaving of concurrent /api/register requests for the
\* same username, at most one user row has that username, every user row has
\* exactly one profile row, and at most one of the requests is answered with
\* success, which is the one that gets the auth cookie.
C20_RegisterRaceSafe ==
  /\ \A i, j \in 1..Len(db.users) :
       db.users[i].username = db.users[j].username => i = j
  /\ \A i \in 1..Len(db.users) :
       Cardinality({j \in 1..Len(db.profiles) :
                      db.profiles[j].user_id = db.users[i].id}) = 1
  /\ \A r1, r2 \in Reqs :
       /\ requests[r1].route = "register"
       /\ requests[r2].route = "register"
       /\ requests[r1].body.username = requests[r2].body.username
       /\ requests[r1].code = 200
       /\ requests[r2].code = 200
       => r1 = r2
  /\ \A r \in Reqs :
       requests[r].route = "register" =>
         (requests[r].code = 200 <=> requests[r].cookie # Plain)

\* Two requests for one username both passed the existence check; one
\* inserted the user and the other was answered 500
C20_Witness ==
  \E r1, r2 \in Reqs :
    /\ requests[r1].route = "register"
    /\ requests[r2].route = "register"
    /\ requests[r1].body.username = requests[r2].body.username
    /\ requests[r1].code = 200
    /\ requests[r2].code = 500
    /\ Len(db.users) = 1
    /\ Len(db.profiles) = 1

====
